---- MODULE Spec2Model ----
(***************************************************************************)
(* A model of the rs-conllu parsing engine (src/src/parsers.rs):           *)
(*   parse_int / parse_id          the identifier parser                   *)
(*   parse_key_value_pairs         the FEATS parser                        *)
(*   parse_deps                    the DEPS parser                         *)
(*   placeholder(_result)          the `_` convention                      *)
(*   parse_token                   one ten-column line                     *)
(*   parse_sentence                one block of lines                      *)
(*   Doc::new / Doc::next          the streaming document parser           *)
(* and of the loop of src/src/bin/conllint.rs that drives a Doc over each  *)
(* file until it yields None.                                              *)
(*                                                                         *)
(* Text is modelled as a sequence of one-character strings, so that        *)
(* splitting, prefix tests and integer parsing are computed character by   *)
(* character as the code does.                                             *)
(***************************************************************************)
EXTENDS Integers, Sequences, FiniteSets

VARIABLES files, file_idx, pc, reader, line_num, yielded,
          fn_name, fn_input, fn_output

vars == <<files, file_idx, pc, reader, line_num, yielded,
          fn_name, fn_input, fn_output>>

doc_vars == <<files, file_idx, pc, reader, line_num, yielded>>

fn_vars == <<fn_name, fn_input, fn_output>>

(***************************************************************************)
(* Bounds of the model.                                                    *)
(***************************************************************************)
\* usize is modelled UsizeBits wide: 0 .. 2^UsizeBits - 1.
UsizeBits == 4

\* Longest identifier field drawn from IdChars.
MaxIdLen == 5

\* Columns a token line may hold beyond the ten of the format.
MaxExtraCols == 1

\* Most '|'-separated parts of a FEATS field.
MaxKvParts == 3

\* Most lines of a file read by the streaming parser.
MaxLines == 4

\* Most lines of each of two files read one after the other.
MaxTwinLines == 4

(***************************************************************************)
(* Characters and text helpers.                                            *)
(***************************************************************************)
TAB == "\t"

NL == "\n"

CR == "\r"

Digits == <<"0", "1", "2", "3", "4", "5", "6", "7", "8", "9">>

IsDigit(c) == \E i \in 1..10 : Digits[i] = c

DigitVal(c) == (CHOOSE i \in 1..10 : Digits[i] = c) - 1

RECURSIVE Pow2(_)
Pow2(n) == IF n = 0 THEN 1 ELSE 2 * Pow2(n - 1)

UsizeMax == Pow2(UsizeBits) - 1

\* str::contains(char)
Contains(s, c) == \E i \in 1..Len(s) : s[i] = c

\* Index of the first occurrence of c in s, 0 when there is none.
FirstIndex(s, c) ==
  IF Contains(s, c) THEN CHOOSE i \in 1..Len(s) : s[i] = c /\ \A j \in 1..(i - 1) : s[j] # c
  ELSE 0

\* str::split(char): always at least one part; adjacent, leading and trailing
\* separators give empty parts.
RECURSIVE Split(_, _)
Split(s, c) ==
  LET i == FirstIndex(s, c)
  IN IF i = 0 THEN <<s>>
     ELSE <<SubSeq(s, 1, i - 1)>> \o Split(SubSeq(s, i + 1, Len(s)), c)

\* str::split_once(char): the text before and after the first c.
SplitOnce(s, c) ==
  LET i == FirstIndex(s, c)
  IN IF i = 0 THEN [some |-> FALSE, left |-> <<>>, right |-> <<>>]
     ELSE [some |-> TRUE, left |-> SubSeq(s, 1, i - 1), right |-> SubSeq(s, i + 1, Len(s))]

\* The parts of ps joined by the separator c.
RECURSIVE Join(_, _)
Join(ps, c) ==
  IF Len(ps) = 0 THEN <<>>
  ELSE IF Len(ps) = 1 THEN ps[1]
  ELSE ps[1] \o <<c>> \o Join(Tail(ps), c)

(***************************************************************************)
(* Result and Option values.                                               *)
(***************************************************************************)
Ok(v) == [ok |-> TRUE, val |-> v]

Err(e) == [ok |-> FALSE, err |-> e]

None == [some |-> FALSE]

Some(v) == [some |-> TRUE, val |-> v]

\* The value returned by the call of a parser on fn_input, once made.
NoOutput == [done |-> FALSE]

Output(v) == [done |-> TRUE, val |-> v]

(***************************************************************************)
(* Iterator::collect::<Result<Vec<_>, _>>() over results computed in       *)
(* order: the first error, or every value.                                 *)
(***************************************************************************)
Collect(rs) ==
  IF \E i \in 1..Len(rs) : ~rs[i].ok
  THEN rs[CHOOSE i \in 1..Len(rs) : ~rs[i].ok /\ \A j \in 1..(i - 1) : rs[j].ok]
  ELSE Ok([i \in 1..Len(rs) |-> rs[i].val])

(***************************************************************************)
(* usize::from_str, as called by parse_int: an optional leading '+', then  *)
(* one or more decimal digits folded left to right with checked            *)
(* arithmetic.  The error kinds are those of std's ParseIntError.          *)
(***************************************************************************)
RECURSIVE FoldDigits(_, _)
FoldDigits(ds, acc) ==
  IF Len(ds) = 0 THEN Ok(acc)
  ELSE IF ~IsDigit(ds[1]) THEN Err("InvalidDigit")
  ELSE IF acc * 10 > UsizeMax THEN Err("PosOverflow")
  ELSE IF acc * 10 + DigitVal(ds[1]) > UsizeMax THEN Err("PosOverflow")
  ELSE FoldDigits(Tail(ds), acc * 10 + DigitVal(ds[1]))

UsizeFromStr(src) ==
  IF Len(src) = 0 THEN Err("Empty")
  ELSE IF Len(src) = 1 /\ src[1] \in {"+", "-"} THEN Err("InvalidDigit")
  ELSE IF src[1] = "+" THEN FoldDigits(Tail(src), 0)
  ELSE FoldDigits(src, 0)

(***************************************************************************)
(* parse_int and parse_id.                                                 *)
(***************************************************************************)
InvalidRange == [kind |-> "InvalidRange"]

FailedIntParsing(input, source) ==
  [kind |-> "FailedIntParsing", input |-> input, source |-> source]

\* usize::from_str(input).map_err(|e| FailedIntParsing { input, source: e })
IntParsed(input, parsed) ==
  IF parsed.ok THEN parsed ELSE Err(FailedIntParsing(input, parsed.err))

parse_int(input) == IntParsed(input, UsizeFromStr(input))

Single(n) == [shape |-> "Single", a |-> n, b |-> 0]

Range(lo, hi) == [shape |-> "Range", a |-> lo, b |-> hi]

Subordinate(major, minor) == [shape |-> "Subordinate", a |-> major, b |-> minor]

\* FindSep looking for '.' before '-'.
FindSepDotFirst(field) ==
  IF Contains(field, ".") THEN [some |-> TRUE, val |-> "."]
  ELSE IF Contains(field, "-") THEN [some |-> TRUE, val |-> "-"]
  ELSE [some |-> FALSE]

\* ['-', '.'].iter().find(|s| field.contains(**s))
FindSep(field) ==
  IF Contains(field, "-") THEN Some("-")
  ELSE IF Contains(field, ".") THEN Some(".")
  ELSE None

\* ids.iter().map(|s| parse_int(s)).collect::<Result<Vec<usize>, _>>()
CollectInts(parts) == Collect([i \in 1..Len(parts) |-> parse_int(parts[i])])

\* The rest of the `if let Some(sep)` branch, once the parts are parsed:
\* `let ids = ids?`, the length check, the match on sep.
IdOfParts(sep, ids) ==
  IF ~ids.ok THEN ids
  ELSE IF Len(ids.val) # 2 THEN Err(InvalidRange)
  ELSE IF sep = "-" THEN Ok(Range(ids.val[1], ids.val[2]))
  ELSE Ok(Subordinate(ids.val[1], ids.val[2]))

\* Ok(TokenID::Single(parse_int(field)?))
SingleOf(n) == IF n.ok THEN Ok(Single(n.val)) ELSE n

\* parse_id with a separator found.
IdWithSep(field, sep) ==
  IF sep.some THEN IdOfParts(sep.val, CollectInts(Split(field, sep.val)))
  ELSE SingleOf(parse_int(field))

parse_id(field) == IdWithSep(field, FindSep(field))

(***************************************************************************)
(* UPOS::from_str (src/src/lib.rs): a total lookup over the 17 tag names.  *)
(***************************************************************************)
UposNames ==
  { <<"A", "D", "J">>, <<"A", "D", "P">>, <<"A", "D", "V">>, <<"A", "U", "X">>,
    <<"C", "C", "O", "N", "J">>, <<"D", "E", "T">>, <<"I", "N", "T", "J">>,
    <<"N", "O", "U", "N">>, <<"N", "U", "M">>, <<"P", "A", "R", "T">>,
    <<"P", "R", "O", "N">>, <<"P", "R", "O", "P", "N">>,
    <<"P", "U", "N", "C", "T">>, <<"S", "C", "O", "N", "J">>, <<"S", "Y", "M">>,
    <<"V", "E", "R", "B">>, <<"X">> }

ParseUposError == "ParseUposError"

upos_from_str(value) ==
  IF value \in UposNames THEN Ok(value) ELSE Err(ParseUposError)

(***************************************************************************)
(* ParseErrorType.                                                         *)
(***************************************************************************)
MissingField(name) == [kind |-> "MissingField", name |-> name]

FailedIdParse(e) == [kind |-> "FailedIdParse", source |-> e]

FailedUposParse(source, field) ==
  [kind |-> "FailedUposParse", source |-> source, field |-> field]

KeyValueParseError == [kind |-> "KeyValueParseError"]

\* The `?` on a Result<_, ParseIdError> in a function returning
\* ParseErrorType: #[from] wraps the error as FailedIdParse.
FromIdError(r) == IF r.ok THEN r ELSE Err(FailedIdParse(r.err))

(***************************************************************************)
(* parse_key_value_pairs and parse_deps.                                   *)
(***************************************************************************)
\* p.split_once(sep).ok_or(KeyValueParseError)
PairOf(split) ==
  IF split.some THEN Ok(<<split.left, split.right>>) ELSE Err(KeyValueParseError)

\* kv_pairs.iter().map(|p| p.split_once(sep).ok_or(..)).collect()
CollectPairs(parts, sep) ==
  Collect([i \in 1..Len(parts) |-> PairOf(SplitOnce(parts[i], sep))])

\* A HashMap is a function from its keys to their values.
EmptyMap == [k \in {} |-> <<>>]

\* An insert that keeps the value a key already has.
MapInsertKeepFirst(m, k, v) ==
  [x \in (DOMAIN m) \cup {k} |-> IF x \in DOMAIN m THEN m[x] ELSE v]

\* HashMap::insert: the value replaces the one the key had.
MapInsert(m, k, v) ==
  [x \in (DOMAIN m) \cup {k} |-> IF x = k THEN v ELSE m[x]]

\* Iterator::collect::<HashMap<_, _>>(): the pairs inserted in order.
RECURSIVE CollectMap(_, _)
CollectMap(pairs, m) ==
  IF Len(pairs) = 0 THEN m
  ELSE CollectMap(Tail(pairs), MapInsert(m, pairs[1][1], pairs[1][2]))

\* `features?` and the collect into a HashMap.
MapOfPairs(features) ==
  IF ~features.ok THEN features ELSE Ok(CollectMap(features.val, EmptyMap))

parse_key_value_pairs(field) == MapOfPairs(CollectPairs(Split(field, "|"), "="))

Dep(head, rel) == [head |-> head, rel |-> rel]

\* Ok(Dep { head: parse_id(t.0)?, rel: String::from(t.1) })
DepOf(head, rel) == IF head.ok THEN Ok(Dep(head.val, rel)) ELSE head

\* deps.iter().map(|t| ..).collect::<Result<Vec<Dep>, ParseIdError>>()
CollectDeps(pairs) ==
  Collect([i \in 1..Len(pairs) |-> DepOf(parse_id(pairs[i][1]), pairs[i][2])])

\* `deps?`, then the heads parsed and `Ok(deps?)`.
DepsOfPairs(deps) ==
  IF ~deps.ok THEN deps ELSE FromIdError(CollectDeps(deps.val))

parse_deps(field) == DepsOfPairs(CollectPairs(Split(field, "|"), ":"))

(***************************************************************************)
(* placeholder, placeholder_result and Option::transpose.                  *)
(***************************************************************************)
Placeholder == <<"_">>

\* placeholder that takes "_" for a value like any other.
placeholder_never(field) == [some |-> TRUE, val |-> field]

placeholder(field) ==
  IF field = Placeholder THEN None ELSE Some(field)

\* The FnOnce(&str) -> O arguments parse_token passes to placeholder_result,
\* by name.
CallParser(f, field) ==
  CASE f = "str::parse::<UPOS>" -> upos_from_str(field)
    [] f = "parse_key_value_pairs" -> parse_key_value_pairs(field)
    [] f = "parse_id" -> parse_id(field)
    [] f = "parse_deps" -> parse_deps(field)

\* f is called only for a field other than "_".
placeholder_result(field, f) ==
  IF field = Placeholder THEN None ELSE Some(CallParser(f, field))

\* Option<Result<T, E>>::transpose
Transpose(o) ==
  IF ~o.some THEN Ok(None)
  ELSE IF o.val.ok THEN Ok(Some(o.val.val))
  ELSE o.val

(***************************************************************************)
(* parse_token: the ten columns are taken from the iterator and parsed one *)
(* after the other, in the order of the format, and the first failure is   *)
(* returned.                                                               *)
(***************************************************************************)
NumColumns == 10

\* The names given to MissingField, in the order the columns are taken.
ColumnNames ==
  <<"id", "form", "lemma", "upos", "xpos", "features", "head", "deprel",
    "deps", "misc">>

Token(id, form, lemma, upos, xpos, features, head, deprel, dep, misc) ==
  [id |-> id, form |-> form, lemma |-> lemma, upos |-> upos, xpos |-> xpos,
   features |-> features, head |-> head, deprel |-> deprel, dep |-> dep,
   misc |-> misc]

\* fields_iter.next().ok_or(MissingField(name)) failing one column early.
NextFieldOffByOne(fields, i, name) ==
  IF i >= Len(fields) THEN [ok |-> FALSE, err |-> MissingField(name)]
  ELSE [ok |-> TRUE, val |-> fields[i]]

\* fields_iter.next().ok_or(MissingField(name)), for the i-th call on the
\* iterator: the i-th tab-separated part when the line has one.
NextField(fields, i, name) ==
  IF i > Len(fields) THEN Err(MissingField(name)) ELSE Ok(fields[i])

\* .map_err(|e| FailedUposParse { source: e, field: upos.to_string() })
UposParsed(r, field) ==
  IF r.ok THEN r ELSE Err(FailedUposParse(r.err, field))

\* What parse_token makes of the text of column i, once taken.
ParseColumn(i, field) ==
  CASE i = 1 -> FromIdError(parse_id(field))
    [] i = 2 -> Ok(field)
    [] i = 3 -> Ok(placeholder(field))
    [] i = 4 -> UposParsed(Transpose(placeholder_result(field, "str::parse::<UPOS>")), field)
    [] i = 5 -> Ok(placeholder(field))
    [] i = 6 -> Transpose(placeholder_result(field, "parse_key_value_pairs"))
    [] i = 7 -> FromIdError(Transpose(placeholder_result(field, "parse_id")))
    [] i = 8 -> Ok(placeholder(field))
    [] i = 9 -> Transpose(placeholder_result(field, "parse_deps"))
    [] i = 10 -> Ok(placeholder(field))

\* parse_token from its i-th column on: vals are the values of the columns
\* before it.  Column i is taken (`?`), parsed (`?`), and the next follows.
RECURSIVE TakeColumns(_, _, _)
RECURSIVE ColumnTaken(_, _, _, _)
RECURSIVE ColumnParsed(_, _, _, _)
TakeColumns(fields, i, vals) ==
  IF i > NumColumns
  THEN Ok(Token(vals[1], vals[2], vals[3], vals[4], vals[5], vals[6], vals[7],
                vals[8], vals[9], vals[10]))
  ELSE ColumnTaken(fields, i, vals, NextField(fields, i, ColumnNames[i]))

ColumnTaken(fields, i, vals, field) ==
  IF ~field.ok THEN field
  ELSE ColumnParsed(fields, i, vals, ParseColumn(i, field.val))

ColumnParsed(fields, i, vals, v) ==
  IF ~v.ok THEN v ELSE TakeColumns(fields, i + 1, Append(vals, v.val))

parse_token(line) == TakeColumns(Split(line, TAB), 1, <<>>)

(***************************************************************************)
(* parse_sentence.                                                         *)
(***************************************************************************)
\* str::lines: the text between line feeds, without the line feed and without
\* a carriage return before it; a line feed at the very end starts no line.
StripCR(raw, ended) ==
  IF ended /\ Len(raw) > 0 /\ raw[Len(raw)] = CR
  THEN SubSeq(raw, 1, Len(raw) - 1) ELSE raw

RECURSIVE Lines(_)
RECURSIVE LinesAt(_, _)
Lines(s) == IF Len(s) = 0 THEN <<>> ELSE LinesAt(s, FirstIndex(s, NL))

LinesAt(s, i) ==
  IF i = 0 THEN <<s>>
  ELSE <<StripCR(SubSeq(s, 1, i - 1), TRUE)>> \o Lines(SubSeq(s, i + 1, Len(s)))

WhiteSpace == {" ", TAB, CR, NL}

\* str::trim_start
RECURSIVE TrimStart(_)
TrimStart(s) ==
  IF Len(s) > 0 /\ s[1] \in WhiteSpace THEN TrimStart(Tail(s)) ELSE s

Sentence(meta, tokens) == [meta |-> meta, tokens |-> tokens]

ConlluParseError(line, err) == [line |-> line, err |-> err]

\* The loop of parse_sentence from the line of index i (0-based) on.
RECURSIVE ParseLines(_, _, _, _)
RECURSIVE TokenParsed(_, _, _, _, _)
ParseLines(lines, i, meta, tokens) ==
  IF i >= Len(lines) THEN Ok(Sentence(meta, tokens))
  ELSE IF Len(lines[i + 1]) > 0 /\ lines[i + 1][1] = "#"
  THEN ParseLines(lines, i + 1, Append(meta, TrimStart(Tail(lines[i + 1]))), tokens)
  ELSE IF Len(lines[i + 1]) # 0
  THEN TokenParsed(lines, i, meta, tokens, parse_token(lines[i + 1]))
  ELSE ParseLines(lines, i + 1, meta, tokens)

\* parse_token(line).map_err(|e| ConlluParseError { err: e, line: i })?
TokenParsed(lines, i, meta, tokens, token) ==
  IF ~token.ok THEN Err(ConlluParseError(i, token.err))
  ELSE ParseLines(lines, i + 1, meta, Append(tokens, token.val))

parse_sentence(input) == ParseLines(Lines(input), 0, <<>>, <<>>)

(***************************************************************************)
(* Doc: the streaming parser.  The reader is the text of the file not yet  *)
(* read.                                                                   *)
(***************************************************************************)
\* BufRead::read_line: the bytes up to and including the next line feed, or
\* all that is left when there is none; bytes is 0 only at the end of input.
ReadUpTo(rd, n) ==
  [bytes |-> n, text |-> SubSeq(rd, 1, n), rest |-> SubSeq(rd, n + 1, Len(rd))]

read_line(rd) ==
  IF Contains(rd, NL) THEN ReadUpTo(rd, FirstIndex(rd, NL)) ELSE ReadUpTo(rd, Len(rd))

\* str::ends_with("\n"): every line feed taken for a sentence break.
EndsWithLineFeed(buffer) ==
  /\ Len(buffer) >= 1
  /\ buffer[Len(buffer)] = NL

\* str::ends_with("\n\n")
EndsWithBlankLine(buffer) ==
  /\ Len(buffer) >= 2
  /\ buffer[Len(buffer)] = NL
  /\ buffer[Len(buffer) - 1] = NL

\* Nothing pushed at the end of the input.
PushNothing(buffer) == buffer

\* self.buffer.push('\n')
PushLineFeed(buffer) == buffer \o <<NL>>

\* The loop of Doc::next filling the buffer up to a sentence break or the end
\* of the input: one read_line, the two counters, the two exits.
RECURSIVE FillBuffer(_, _, _, _)
RECURSIVE LineRead(_, _, _, _)
FillBuffer(rd, buffer, ln, n) == LineRead(read_line(rd), buffer, ln + 1, n + 1)

LineRead(r, buffer, ln, n) ==
  IF EndsWithBlankLine(buffer \o r.text)
  THEN [reader |-> r.rest, buffer |-> buffer \o r.text, line_num |-> ln, n |-> n]
  ELSE IF r.bytes = 0
  THEN [reader |-> r.rest, buffer |-> PushLineFeed(buffer \o r.text),
        line_num |-> ln, n |-> n]
  ELSE FillBuffer(r.rest, buffer \o r.text, ln, n)

\* ConlluParseError::adjust_line without the + 1 of its caller.
adjust_line_zero_based(e, offset) == [line |-> e.line + offset - 1, err |-> e.err]

\* ConlluParseError::adjust_line
adjust_line(e, offset) == [line |-> e.line + offset, err |-> e.err]

\* parse_sentence(&buffer).map_err(|mut e| { e.adjust_line(offset); e })
Adjusted(parsed, offset) ==
  IF parsed.ok THEN parsed ELSE Err(adjust_line(parsed.err, offset))

\* Doc::next dropping the rest of the input once a sentence fails.
BufferFilledThenFused(f) ==
  [reader |-> IF parse_sentence(f.buffer).ok THEN f.reader ELSE <<>>,
   line_num |-> f.line_num,
   item |-> [some |-> TRUE,
             val |-> Adjusted(parse_sentence(f.buffer), f.line_num - f.n + 1)],
   buffer |-> f.buffer]

\* Doc::next once the buffer is filled: f is the Doc's reader and line_num,
\* the buffer and num_lines_in_buffer.
BufferFilled(f) ==
  [reader |-> f.reader, line_num |-> f.line_num,
   item |-> Some(Adjusted(parse_sentence(f.buffer), f.line_num - f.n + 1)),
   buffer |-> f.buffer]

\* Doc::next with the buffer cleared after its first read_line.
FirstReadCleared(first, ln) ==
  IF first.bytes = 0
  THEN [reader |-> first.rest, line_num |-> ln + 1, item |-> [some |-> FALSE],
        buffer |-> <<>>]
  ELSE BufferFilled(FillBuffer(first.rest, <<>>, ln + 1, 1))

\* Doc::next after its first read_line.
FirstRead(first, ln) ==
  IF first.bytes = 0
  THEN [reader |-> first.rest, line_num |-> ln + 1, item |-> None, buffer |-> <<>>]
  ELSE BufferFilled(FillBuffer(first.rest, first.text, ln + 1, 1))

\* Doc::next on a Doc with the given reader and line_num: the Doc after the
\* call, the item returned, and the buffer handed to parse_sentence.
doc_next(rd, ln) == FirstRead(read_line(rd), ln)

(***************************************************************************)
(* The files read and the loop of conllint's main over them: each file is  *)
(* opened (parse_file, Doc::new) and its Doc is iterated until None.       *)
(***************************************************************************)
GoodLine1 ==
  Join(<<<<"1">>, <<"a">>, <<"_">>, <<"_">>, <<"_">>, <<"_">>, <<"_">>,
         <<"_">>, <<"_">>, <<"_">>>>, TAB)

GoodLine2 ==
  Join(<<<<"2">>, <<"b">>, <<"_">>, <<"X">>, <<"_">>, <<"_">>, <<"1">>,
         <<"_">>, <<"_">>, <<"_">>>>, TAB)

BadLine == Join(<<<<"3">>, <<"c">>, <<"_">>, <<"Q">>>>, TAB)

CommentLine == <<"#", " ", "t">>

BlankLine == <<>>

FileLines == {GoodLine1, GoodLine2, BadLine, CommentLine, BlankLine}

\* The text of a file of the given lines, each ended by a line feed.
RECURSIVE FileText(_)
FileText(ls) ==
  IF Len(ls) = 0 THEN <<>> ELSE ls[1] \o <<NL>> \o FileText(Tail(ls))

\* Files of up to most lines; the last line may lack its line feed.
Files(most) ==
  LET full == {FileText(ls) : ls \in UNION {[1..n -> FileLines] : n \in 0..most}}
  IN full \cup {SubSeq(t, 1, Len(t) - 1) : t \in full \ {<<>>}}

FnIdle ==
  /\ fn_name = "none"
  /\ fn_input = <<>>
  /\ fn_output = NoOutput

\* No file is read.
DocIdle ==
  /\ files = <<>>
  /\ file_idx = 0
  /\ pc = "exit"
  /\ reader = <<>>
  /\ line_num = 0
  /\ yielded = <<>>

Init ==
  /\ \E f \in Files(MaxLines) : files = <<f>>
  /\ file_idx = 0
  /\ pc = "walk"
  /\ reader = <<>>
  /\ line_num = 0
  /\ yielded = <<>>
  /\ FnIdle

\* parse_file: Doc::new over the next file.
OpenFile ==
  /\ pc = "walk"
  /\ file_idx < Len(files)
  /\ file_idx' = file_idx + 1
  /\ reader' = files[file_idx + 1]
  /\ line_num' = 0
  /\ yielded' = Append(yielded, <<>>)
  /\ pc' = "iter"
  /\ UNCHANGED <<files, fn_vars>>

\* The for loop's step on what a call of Doc::next returned: the Doc is left
\* as the call left it; an item is recorded with the buffer it was parsed
\* from and the offsets of the file the call read from and up to; None ends
\* the loop.
Returned(r) ==
  /\ reader' = r.reader
  /\ line_num' = r.line_num
  /\ IF r.item.some
     THEN /\ yielded' = [yielded EXCEPT ![file_idx] =
               Append(@, [item |-> r.item.val, buffer |-> r.buffer,
                          from |-> Len(files[file_idx]) - Len(reader),
                          upto |-> Len(files[file_idx]) - Len(r.reader)])]
          /\ pc' = "iter"
     ELSE /\ yielded' = yielded
          /\ pc' = "walk"

\* One call of Doc::next by the for loop.
DocNext ==
  /\ pc = "iter"
  /\ Returned(doc_next(reader, line_num))
  /\ UNCHANGED <<files, file_idx, fn_vars>>

\* The walk is over.
Exit ==
  /\ pc = "walk"
  /\ file_idx = Len(files)
  /\ pc' = "exit"
  /\ UNCHANGED <<files, file_idx, reader, line_num, yielded, fn_vars>>

Next == OpenFile \/ DocNext \/ Exit

Spec == Init /\ [][Next]_vars

\* The for loop of main goes on calling Doc::next, and main goes on to the next
\* file, for as long as there is something to do: weak fairness of Next,
\* WF_vars(Next), written as []<>~ENABLED <<Next>>_vars \/ []<><<Next>>_vars
\* with the state predicate that ENABLED <<Next>>_vars is: a step of Next is
\* possible, and changes the state, exactly until main has exited.
FairSpec == Spec /\ ([]<>(pc = "exit") \/ []<><<Next>>_vars)

(***************************************************************************)
(* Two files read one after the other, the second being the first with the *)
(* malformed token lines of one sentence made well-formed.                 *)
(***************************************************************************)
\* Lines i and j are in one run of lines other than blank ones.
SameRun(ls, i, j) ==
  \A m \in 1..Len(ls) :
    ((i <= m /\ m <= j) \/ (j <= m /\ m <= i)) => ls[m] # BlankLine

\* ls with the malformed lines of the run of line i replaced.
Repaired(ls, i) ==
  [j \in 1..Len(ls) |->
     IF ls[j] = BadLine /\ SameRun(ls, i, j) THEN GoodLine1 ELSE ls[j]]

\* The text without its last cut characters.
DropLast(text, cut) == SubSeq(text, 1, Len(text) - cut)

InitTwin ==
  /\ \E n \in 1..MaxTwinLines :
       \E ls \in [1..n -> FileLines] :
         \E i \in 1..n, cut \in {0, 1} :
           /\ ls[i] = BadLine
           /\ files = << DropLast(FileText(ls), cut),
                         DropLast(FileText(Repaired(ls, i)), cut) >>
  /\ file_idx = 0
  /\ pc = "walk"
  /\ reader = <<>>
  /\ line_num = 0
  /\ yielded = <<>>
  /\ FnIdle

SpecTwin == InitTwin /\ [][Next]_vars

(***************************************************************************)
(* parse_sentence called on its own on a block of text.                    *)
(***************************************************************************)
InitSentence ==
  /\ DocIdle
  /\ fn_name = "parse_sentence"
  /\ fn_input \in Files(MaxLines)
  /\ fn_output = NoOutput

CallParseSentence ==
  /\ fn_name = "parse_sentence"
  /\ ~fn_output.done
  /\ fn_output' = Output(parse_sentence(fn_input))
  /\ UNCHANGED <<fn_name, fn_input, doc_vars>>

NextSentence == CallParseSentence

SpecSentence == InitSentence /\ [][NextSentence]_vars

(***************************************************************************)
(* Claims about the streaming parser.  The lines of a text are counted     *)
(* here from the text itself, not from the parser's counters.              *)
(***************************************************************************)
\* The lines of a text: the pieces between line feeds, a line feed at the very
\* end starting no line.
TextLines(text) ==
  IF Len(text) = 0 THEN <<>>
  ELSE IF text[Len(text)] = NL THEN Split(SubSeq(text, 1, Len(text) - 1), NL)
  ELSE Split(text, NL)

\* The number of lines in the first off characters of a text.
LinesIn(text, off) == Len(TextLines(SubSeq(text, 1, off)))

IsTokenLine(l) == Len(l) > 0 /\ l[1] # "#"

IsCommentLine(l) == Len(l) > 0 /\ l[1] = "#"

FailingLine(l) == IsTokenLine(l) /\ ~parse_token(l).ok

\* The first line after line `before`, up to line `upto`, that is a token line
\* parse_token rejects (0: none).
FirstFailing(ls, before, upto) ==
  IF \E i \in (before + 1)..upto : FailingLine(ls[i])
  THEN CHOOSE i \in (before + 1)..upto :
         FailingLine(ls[i]) /\ \A j \in (before + 1)..(i - 1) : ~FailingLine(ls[j])
  ELSE 0

\* The error of entry e of file f points at line bad of the file.
PointsAt(f, e, bad) ==
  /\ bad # 0
  /\ e.item.err.line = bad
  /\ e.item.err.err = parse_token(TextLines(files[f])[bad]).err

\* C1: whenever Doc::next yields Err for a block, the line of the error is the
\* absolute 1-based position, in the whole stream, of the first token line of
\* that block that fails to parse (and the error is that line's), wherever the
\* block is in the stream and whatever lines were consumed before it.
C1_ErrorLineIsAbsolute ==
  \A f \in 1..Len(yielded) :
    \A k \in 1..Len(yielded[f]) :
      ~yielded[f][k].item.ok =>
        PointsAt(f, yielded[f][k],
                 FirstFailing(TextLines(files[f]),
                              LinesIn(files[f], yielded[f][k].from),
                              LinesIn(files[f], yielded[f][k].upto)))

\* Witness for C1: the second block of a stream, ended by the end of the input
\* with no line feed, came after a comment and a blank line and failed on
\* line 3 of the stream.
C1_Witness ==
  /\ Len(yielded) = 1
  /\ Len(yielded[1]) = 2
  /\ yielded[1][1].item.ok
  /\ ~yielded[1][2].item.ok
  /\ yielded[1][2].item.err.line = 3
  /\ TextLines(files[1]) = <<CommentLine, BlankLine, BadLine>>
  /\ files[1][Len(files[1])] # NL

\* The spans of the file that the calls of Doc::next consumed follow one
\* another from the start of the file, and reach its end once None is returned.
Contiguous(f) ==
  /\ \A k \in 1..Len(yielded[f]) :
       /\ yielded[f][k].from = IF k = 1 THEN 0 ELSE yielded[f][k - 1].upto
       /\ yielded[f][k].from < yielded[f][k].upto
  /\ (f < file_idx \/ pc # "iter") =>
       IF Len(files[f]) = 0 THEN Len(yielded[f]) = 0
       ELSE /\ Len(yielded[f]) > 0
            /\ yielded[f][Len(yielded[f])].upto = Len(files[f])

\* Entries k of the two files are the same result for the same lines.
SameEntry(k) ==
  /\ yielded[1][k].item = yielded[2][k].item
  /\ yielded[1][k].buffer = yielded[2][k].buffer

\* Entries k of the two files span the same lines.
SameSpan(k) ==
  /\ LinesIn(files[1], yielded[1][k].from) = LinesIn(files[2], yielded[2][k].from)
  /\ LinesIn(files[1], yielded[1][k].upto) = LinesIn(files[2], yielded[2][k].upto)

\* C2: a block that fails does not abort the iteration.  With the second file
\* being the first with one failing block made well-formed: both give the same
\* number of results over the same lines; exactly one block fails in the first
\* and parses in the second; every other block, before or after, gives the same
\* Sentence or the same error with the same absolute line; and the spans
\* consumed follow one another, so no line is skipped or read again.
C2_FailureDoesNotAbort ==
  /\ \A f \in 1..Len(yielded) : Contiguous(f)
  /\ (pc = "exit" /\ Len(files) = 2) =>
       /\ Len(yielded[1]) = Len(yielded[2])
       /\ \A k \in 1..Len(yielded[1]) : SameSpan(k)
       /\ \E k \in 1..Len(yielded[1]) :
            /\ ~yielded[1][k].item.ok
            /\ yielded[2][k].item.ok
            /\ \A j \in 1..Len(yielded[1]) : j # k => SameEntry(j)

\* Witness for C2: the first block failed in the first file only, and a later
\* block failed in both with the same error on line 3.
C2_Witness ==
  /\ pc = "exit"
  /\ Len(files) = 2
  /\ Len(yielded[1]) = 2
  /\ ~yielded[1][1].item.ok
  /\ yielded[2][1].item.ok
  /\ ~yielded[1][2].item.ok
  /\ yielded[1][2].item.err.line = 3
  /\ yielded[2][2].item = yielded[1][2].item

\* A document of sentences of one or more comment or token lines, with exactly
\* one blank line between two sentences and at most one after the last.
WellShaped(ls) ==
  /\ Len(ls) >= 1
  /\ ls[1] # BlankLine
  /\ \A i \in 1..(Len(ls) - 1) : ~(ls[i] = BlankLine /\ ls[i + 1] = BlankLine)

\* The lines a sentence starts on.
SentenceStarts(ls) ==
  {i \in 1..Len(ls) : ls[i] # BlankLine /\ (i = 1 \/ ls[i - 1] = BlankLine)}

\* The line the n-th sentence starts on.
NthStart(ls, n) ==
  CHOOSE i \in SentenceStarts(ls) :
    Cardinality({j \in SentenceStarts(ls) : j <= i}) = n

\* The line a sentence started on line i ends on.
EndOf(ls, i) ==
  CHOOSE j \in i..Len(ls) :
    /\ \A m \in i..j : ls[m] # BlankLine
    /\ j = Len(ls) \/ ls[j + 1] = BlankLine

SentenceLines(ls, n) == SubSeq(ls, NthStart(ls, n), EndOf(ls, NthStart(ls, n)))

\* The result of a sentence of the given lines: its comments and the parses of
\* its token lines, each in line order, or the error of its first token line
\* that fails.
IsParseOf(item, sl) ==
  /\ item.ok = parse_sentence(FileText(sl)).ok
  /\ item.ok => item = parse_sentence(FileText(sl))
  /\ IF \E i \in 1..Len(sl) : FailingLine(sl[i])
     THEN /\ ~item.ok
          /\ item.err.err = parse_token(sl[FirstFailing(sl, 0, Len(sl))]).err
     ELSE /\ item.ok
          /\ Len(item.val.tokens) = Len(SelectSeq(sl, IsTokenLine))
          /\ \A i \in 1..Len(item.val.tokens) :
               Ok(item.val.tokens[i]) = parse_token(SelectSeq(sl, IsTokenLine)[i])
          /\ Len(item.val.meta) = Len(SelectSeq(sl, IsCommentLine))

\* C3: for a document of k >= 1 sentences separated by exactly one blank line,
\* the last ended by the end of the input with or without one blank line after
\* it, the calls of Doc::next yield the parse of the i-th sentence as the i-th
\* result, k results in all before None, the tokens of each Sentence being the
\* parses of its token lines in line order.
C3_SentencesInOrder ==
  \A f \in 1..Len(yielded) :
    WellShaped(TextLines(files[f])) =>
      /\ Len(yielded[f]) <= Cardinality(SentenceStarts(TextLines(files[f])))
      /\ (f < file_idx \/ pc # "iter") =>
           Len(yielded[f]) = Cardinality(SentenceStarts(TextLines(files[f])))
      /\ \A n \in 1..Len(yielded[f]) :
           IsParseOf(yielded[f][n].item, SentenceLines(TextLines(files[f]), n))

\* Witness for C3: a document of two sentences gave two results and None, the
\* first a Sentence of the two tokens of lines 1 and 2 in that order.
C3_Witness ==
  /\ pc = "exit"
  /\ Len(yielded) = 1
  /\ TextLines(files[1]) = <<GoodLine1, GoodLine2, BlankLine, GoodLine1>>
  /\ Len(yielded[1]) = 2
  /\ yielded[1][1].item.ok
  /\ Len(yielded[1][1].item.val.tokens) = 2
  /\ yielded[1][1].item.val.tokens[1].id = Single(1)
  /\ yielded[1][1].item.val.tokens[2].id = Single(2)
  /\ yielded[1][2].item.ok

\* The text holds a blank-line boundary: two line feeds in a row.
HasBoundary(text) ==
  \E i \in 2..Len(text) : text[i - 1] = NL /\ text[i] = NL

\* The entry is the result of parsing the text, whatever the line of an error.
ParsedFrom(e, text) ==
  /\ e.buffer = text
  /\ e.item.ok = parse_sentence(text).ok
  /\ e.item.ok => e.item = parse_sentence(text)
  /\ ~e.item.ok => e.item.err.err = parse_sentence(text).err.err

\* A call of Doc::next at the end of the stream: with nothing left it returns
\* None and emits nothing; with lines left and no boundary among them it emits
\* them as one result, parsed with a line feed added, and leaves nothing, so
\* that the next call returns None.
EndOfStreamStep ==
  pc = "iter" =>
    /\ Len(reader) = 0 => (pc' = "walk" /\ yielded' = yielded /\ reader' = reader)
    /\ (Len(reader) > 0 /\ ~HasBoundary(reader)) =>
         /\ pc' = "iter"
         /\ Len(reader') = 0
         /\ Len(yielded'[file_idx]) = Len(yielded[file_idx]) + 1
         /\ ParsedFrom(yielded'[file_idx][Len(yielded'[file_idx])],
                       reader \o <<NL>>)

\* C4: for every finite stream the calls of Doc::next reach None after finitely
\* many calls (the loop of main ends); lines left after the last boundary when
\* a read returns zero bytes are emitted as one final result, parsed as if
\* followed by a line feed, and the next call returns None; a call whose first
\* read returns zero bytes returns None and emits nothing.
C4_EndOfStream ==
  /\ <>(pc = "exit")
  /\ [][EndOfStreamStep]_vars

\* Witness for C4: a stream not ended by a line feed was read to its end, its
\* last lines giving a second result parsed from them and a line feed.
C4_Witness ==
  /\ pc = "exit"
  /\ Len(yielded) = 1
  /\ Len(yielded[1]) = 2
  /\ files[1][Len(files[1])] # NL
  /\ yielded[1][2].upto = Len(files[1])
  /\ yielded[1][2].buffer
       = SubSeq(files[1], yielded[1][2].from + 1, Len(files[1])) \o <<NL>>

\* The lines of file f that entry k consumed: those after line `first - 1` up
\* to line `last`.
BlockFirst(f, k) == LinesIn(files[f], yielded[f][k].from) + 1

BlockLast(f, k) == LinesIn(files[f], yielded[f][k].upto)

\* C11: every Ok(Sentence) that Doc::next yields comes from a block holding at
\* least one comment or token line: blank lines alone never give a result, so
\* once None is returned the number of results is the number of maximal runs
\* of lines other than blank ones.
C11_NoResultFromBlankLines ==
  \A f \in 1..Len(yielded) :
    /\ \A k \in 1..Len(yielded[f]) :
         yielded[f][k].item.ok =>
           \E j \in BlockFirst(f, k)..BlockLast(f, k) :
             TextLines(files[f])[j] # BlankLine
    /\ (f < file_idx \/ pc # "iter") =>
         Len(yielded[f]) = Cardinality(SentenceStarts(TextLines(files[f])))

\* The text of file f that entry k consumed.
SpanText(f, k) ==
  SubSeq(files[f], yielded[f][k].from + 1, yielded[f][k].upto)

\* Offset off of a text is the start of a line or the end of the text.
AtLineEnd(text, off) == off = 0 \/ off = Len(text) \/ text[off] = NL

\* C12: the blocks handed to parse_sentence partition the lines of the stream:
\* after any number of calls the blocks are spans of whole lines that follow
\* one another from the start of the stream up to the position of the reader,
\* each block is the text of its span (with the line feed added at the end of
\* the input), and a block ends at the first blank line that follows its first
\* line, or at the end of the input, and nowhere else, whether earlier blocks
\* parsed or not.
C12_BlocksPartitionTheStream ==
  \A f \in 1..Len(yielded) :
    /\ \A k \in 1..Len(yielded[f]) :
         /\ yielded[f][k].from = IF k = 1 THEN 0 ELSE yielded[f][k - 1].upto
         /\ yielded[f][k].from < yielded[f][k].upto
         /\ AtLineEnd(files[f], yielded[f][k].upto)
         /\ yielded[f][k].buffer \in {SpanText(f, k), SpanText(f, k) \o <<NL>>}
         /\ yielded[f][k].buffer # SpanText(f, k) =>
              yielded[f][k].upto = Len(files[f])
         /\ \A j \in (BlockFirst(f, k) + 1)..(BlockLast(f, k) - 1) :
              TextLines(files[f])[j] # BlankLine
         /\ yielded[f][k].upto < Len(files[f]) =>
              /\ BlockLast(f, k) > BlockFirst(f, k)
              /\ TextLines(files[f])[BlockLast(f, k)] = BlankLine
    /\ (f = file_idx /\ pc = "iter") =>
         Len(files[f]) - Len(reader)
           = IF Len(yielded[f]) = 0 THEN 0 ELSE yielded[f][Len(yielded[f])].upto

\* Witness for C12: the first call took the failing line and the blank line
\* after it and nothing more, and the second call took the two lines left.
C12_Witness ==
  /\ Len(yielded) = 1
  /\ TextLines(files[1]) = <<BadLine, BlankLine, GoodLine1, GoodLine2>>
  /\ Len(yielded[1]) = 2
  /\ ~yielded[1][1].item.ok
  /\ BlockFirst(1, 1) = 1
  /\ BlockLast(1, 1) = 2
  /\ yielded[1][2].item.ok
  /\ BlockFirst(1, 2) = 3
  /\ BlockLast(1, 2) = 4

(***************************************************************************)
(* Claim about parse_sentence called on its own (checked under             *)
(* SpecSentence).                                                          *)
(***************************************************************************)
SentenceDone == fn_name = "parse_sentence" /\ fn_output.done

\* C5: when a token line of the block fails, the error carries the
\* 1-based number of that line in the block, comment and empty lines counted:
\* a failure on the first line is reported as line 1.
C5_BlockLineIsOneBased ==
  (SentenceDone /\ ~fn_output.val.ok) =>
    fn_output.val.err.line
      = FirstFailing(TextLines(fn_input), 0, Len(TextLines(fn_input)))

\* What parse_sentence does where C5 says otherwise: the line of the error is
\* the 0-based index of the failing line in the block.
BlockLineIsZeroBased ==
  (SentenceDone /\ ~fn_output.val.ok) =>
    fn_output.val.err.line
      = FirstFailing(TextLines(fn_input), 0, Len(TextLines(fn_input))) - 1

(***************************************************************************)
(* Inputs of the identifier parser.                                        *)
(***************************************************************************)
\* usize::to_string: the decimal digits of n, most significant first.
RECURSIVE UsizeToString(_)
UsizeToString(n) ==
  IF n < 10 THEN <<Digits[n + 1]>>
  ELSE UsizeToString(n \div 10) \o <<Digits[(n % 10) + 1]>>

IdChars == {"0", "1", "7", "-", ".", "x"}

StringsUpTo(chars, n) == UNION {[1..k -> chars] : k \in 0..n}

IdNumbers == 0..UsizeMax

IdInputs(len) ==
  StringsUpTo(IdChars, len)
    \cup {UsizeToString(n) : n \in 0..(UsizeMax + 1)}
    \cup {UsizeToString(lo) \o <<s>> \o UsizeToString(hi) :
            lo \in IdNumbers, hi \in IdNumbers, s \in {"-", "."}}
    \cup {<<"+", "1">>, <<"+">>, <<"1", "-", "+", "2">>, <<"0", "0", "7">>}

InitId ==
  /\ DocIdle
  /\ fn_name = "parse_id"
  /\ fn_input \in IdInputs(MaxIdLen)
  /\ fn_output = NoOutput

CallParseId ==
  /\ fn_name = "parse_id"
  /\ ~fn_output.done
  /\ fn_output' = Output(parse_id(fn_input))
  /\ UNCHANGED <<fn_name, fn_input, doc_vars>>

NextId == CallParseId

SpecId == InitId /\ [][NextId]_vars

(***************************************************************************)
(* Claims about the identifier parser (checked under SpecId).              *)
(***************************************************************************)
IdDone == fn_name = "parse_id" /\ fn_output.done

\* The separator parse_id splits on, and the parts it gets.
IdSep == FindSep(fn_input)

IdParts == Split(fn_input, IdSep.val)

\* The first part, in order, that parse_int rejects (0: every part parses).
FirstBadPart(parts) ==
  IF \E i \in 1..Len(parts) : ~parse_int(parts[i]).ok
  THEN CHOOSE i \in 1..Len(parts) :
         ~parse_int(parts[i]).ok /\ \A j \in 1..(i - 1) : parse_int(parts[j]).ok
  ELSE 0

\* C7: a field holding a separator that does not split into exactly two parts
\* gives InvalidRange whatever the parts are, and an integer-parse failure is
\* reported only for exactly two parts.
C7_InvalidRangeWhateverTheParts ==
  (IdDone /\ IdSep.some) =>
    /\ Len(IdParts) # 2 => fn_output.val = Err(InvalidRange)
    /\ (~fn_output.val.ok /\ fn_output.val.err.kind = "FailedIntParsing")
         => Len(IdParts) = 2

\* What parse_id does where C7 says otherwise: with a separator present, the
\* parts are parsed first, in order: if some part is not an integer the result
\* is the integer-parse failure of the first such part, whatever the number of
\* parts; only when every part is an integer does a number of parts other than
\* two give InvalidRange.
IdFailureOfFirstBadPart ==
  (IdDone /\ IdSep.some) =>
    LET bad == FirstBadPart(IdParts)
    IN /\ bad # 0 => fn_output.val = parse_int(IdParts[bad])
       /\ (bad = 0 /\ Len(IdParts) # 2) => fn_output.val = Err(InvalidRange)
       /\ (bad = 0 /\ Len(IdParts) = 2) => fn_output.val.ok
       /\ fn_output.val = Err(InvalidRange) => (bad = 0 /\ Len(IdParts) # 2)

\* The decimal text of each number of the integer width.
SingleText == [n \in IdNumbers |-> UsizeToString(n)]

HasPrefix(text, p) == Len(text) >= Len(p) /\ SubSeq(text, 1, Len(p)) = p

AfterPrefix(text, p) == SubSeq(text, Len(p) + 1, Len(text))

\* C8: the decimal string of n parses to Single(n), "lo-hi" to Range(lo, hi),
\* "lo.hi" to Subordinate(lo, hi) for all lo, hi of the integer width, in any
\* order; a field holding both '-' and '.' is split on '-' only, so its result
\* is the integer-parse failure of its first '-'-separated part that is not an
\* integer (a part holding the '.').
C8_IdShapes ==
  IdDone =>
    /\ \A n \in IdNumbers :
         fn_input = SingleText[n] => fn_output.val = Ok(Single(n))
    /\ \A lo \in IdNumbers :
         /\ HasPrefix(fn_input, SingleText[lo] \o <<"-">>) =>
              \A hi \in IdNumbers :
                AfterPrefix(fn_input, SingleText[lo] \o <<"-">>) = SingleText[hi]
                  => fn_output.val = Ok(Range(lo, hi))
         /\ HasPrefix(fn_input, SingleText[lo] \o <<".">>) =>
              \A hi \in IdNumbers :
                AfterPrefix(fn_input, SingleText[lo] \o <<".">>) = SingleText[hi]
                  => fn_output.val = Ok(Subordinate(lo, hi))
    /\ (Contains(fn_input, "-") /\ Contains(fn_input, ".")) =>
         LET parts == Split(fn_input, "-")
             bad == FirstBadPart(parts)
         IN /\ bad # 0
            /\ fn_output.val = parse_int(parts[bad])
            /\ ~Contains(fn_output.val.err.input, "-")

\* Witness for C8: a subordinate id with major > minor was parsed.
C8_Witness ==
  /\ IdDone
  /\ fn_input = <<"7", ".", "1">>
  /\ fn_output.val = Ok(Subordinate(7, 1))

(***************************************************************************)
(* Inputs of the token parser: lines of 1 to NumColumns + MaxExtraCols     *)
(* tab-separated columns, each column drawn from values its parser         *)
(* accepts, values it rejects and the placeholder.                         *)
(***************************************************************************)
ColumnChoices ==
  << {<<"1">>, <<"x">>, Placeholder},
     {<<"a">>, Placeholder},
     {<<"b">>, Placeholder},
     {<<"X">>, <<"Q">>, Placeholder},
     {<<"c">>, Placeholder},
     {<<"k", "=", "v">>, <<"k">>, Placeholder},
     {<<"0">>, <<"x">>, Placeholder},
     {<<"d">>, Placeholder},
     {<<"0", ":", "r">>, <<"x", ":", "r">>, <<"0">>, Placeholder},
     {<<"m">>, Placeholder} >>

RECURSIVE ColumnSeqs(_)
ColumnSeqs(n) ==
  IF n = 0 THEN {<<>>}
  ELSE {Append(cs, v) : cs \in ColumnSeqs(n - 1),
                        v \in IF n <= NumColumns THEN ColumnChoices[n] ELSE {<<"z">>}}

TokenLines(extra) ==
  {Join(cs, TAB) : cs \in UNION {ColumnSeqs(n) : n \in 1..(NumColumns + extra)}}
    \cup {<<>>}

InitToken ==
  /\ DocIdle
  /\ fn_name = "parse_token"
  /\ fn_input \in TokenLines(MaxExtraCols)
  /\ fn_output = NoOutput

CallParseToken ==
  /\ fn_name = "parse_token"
  /\ ~fn_output.done
  /\ fn_output' = Output(parse_token(fn_input))
  /\ UNCHANGED <<fn_name, fn_input, doc_vars>>

NextToken == CallParseToken

SpecToken == InitToken /\ [][NextToken]_vars

(***************************************************************************)
(* Inputs of the FEATS parser: fields of 1 to MaxKvParts parts.            *)
(***************************************************************************)
KvParts ==
  { <<"a", "=", "1">>, <<"a", "=", "2">>, <<"b", "=", "1">>, <<"c", "=", "2">>,
    <<"a", "=", "1", "=", "2">>, <<"=", "1">>, <<"a">>, <<>> }

KvFields(most) ==
  {Join(ps, "|") : ps \in UNION {[1..n -> KvParts] : n \in 1..most}}

InitKv ==
  /\ DocIdle
  /\ fn_name = "parse_key_value_pairs"
  /\ fn_input \in KvFields(MaxKvParts)
  /\ fn_output = NoOutput

CallParseKeyValuePairs ==
  /\ fn_name = "parse_key_value_pairs"
  /\ ~fn_output.done
  /\ fn_output' = Output(parse_key_value_pairs(fn_input))
  /\ UNCHANGED <<fn_name, fn_input, doc_vars>>

NextKv == CallParseKeyValuePairs

SpecKv == InitKv /\ [][NextKv]_vars

(***************************************************************************)
(* Claims about the token parser (checked under SpecToken).                *)
(***************************************************************************)
TokDone == fn_name = "parse_token" /\ fn_output.done

\* The tab-separated columns of the input line.
TokCols == Split(fn_input, TAB)

\* What column i's parser answers for the text of the column: Ok(the value of
\* the field) or the error parse_token returns for it.
ColumnResult(i, text) ==
  CASE i = 1 ->
         LET r == parse_id(text) IN IF r.ok THEN r ELSE Err(FailedIdParse(r.err))
    [] i = 4 ->
         IF text \in UposNames THEN Ok(text)
         ELSE Err(FailedUposParse(ParseUposError, text))
    [] i = 6 -> parse_key_value_pairs(text)
    [] i = 7 ->
         LET r == parse_id(text) IN IF r.ok THEN r ELSE Err(FailedIdParse(r.err))
    [] i = 9 -> parse_deps(text)
    [] OTHER -> Ok(text)

\* Column i holds text its parser rejects ("_" is rejected only as an id).
ColumnRejected(cols, i) ==
  /\ i <= Len(cols)
  /\ i = 1 \/ (i > 2 /\ cols[i] # Placeholder)
  /\ ~ColumnResult(i, cols[i]).ok

\* The leftmost rejected column among the first n (0: none).
FirstRejected(cols, n) ==
  IF \E i \in 1..n : ColumnRejected(cols, i)
  THEN CHOOSE i \in 1..n :
         ColumnRejected(cols, i) /\ \A j \in 1..(i - 1) : ~ColumnRejected(cols, j)
  ELSE 0

\* C6 as stated: a line of fewer than ten columns gives MissingField naming
\* the first absent column, whatever the columns that are present hold.
C6_MissingFieldWhateverThePresentColumns ==
  (TokDone /\ Len(TokCols) < NumColumns) =>
    fn_output.val = Err(MissingField(ColumnNames[Len(TokCols) + 1]))

\* C6 amended: a line of fewer than ten columns fails; when every column that
\* is present is accepted by its parser the failure is MissingField naming the
\* first absent column (one of form .. misc); otherwise it is the parse error
\* of the leftmost rejected column.  MissingField("id") is never returned:
\* a line always has a first column.
C6_MissingFieldWhenPresentColumnsParse ==
  TokDone =>
    /\ Len(TokCols) >= 1
    /\ fn_output.val # Err(MissingField("id"))
    /\ Len(TokCols) < NumColumns =>
         LET bad == FirstRejected(TokCols, Len(TokCols))
         IN IF bad = 0
            THEN fn_output.val = Err(MissingField(ColumnNames[Len(TokCols) + 1]))
            ELSE fn_output.val = ColumnResult(bad, TokCols[bad])

\* Witness for C6: a line of six acceptable columns, one a parsed FEATS field,
\* was rejected for its missing head.
C6_Witness ==
  /\ TokDone
  /\ Len(TokCols) = 6
  /\ TokCols[6] = <<"k", "=", "v">>
  /\ fn_output.val = Err(MissingField("head"))

\* The field of a token that column i fills.
FieldOf(tok, i) ==
  CASE i = 1 -> tok.id
    [] i = 2 -> tok.form
    [] i = 3 -> tok.lemma
    [] i = 4 -> tok.upos
    [] i = 5 -> tok.xpos
    [] i = 6 -> tok.features
    [] i = 7 -> tok.head
    [] i = 8 -> tok.deprel
    [] i = 9 -> tok.dep
    [] i = 10 -> tok.misc

OptionalColumns == 3..NumColumns

\* C9: in a line of ten columns with a valid id, an optional column holding
\* exactly "_" gives an absent field and is never handed to its parser (which
\* would reject it), whatever the other columns hold; any other value is
\* parsed, so the line fails only on the leftmost column, other than a
\* placeholder, that its parser rejects; id and form are never placeholders:
\* the form "_" is kept as the text "_".
C9_PlaceholderIsAbsent ==
  (TokDone /\ Len(TokCols) >= NumColumns) =>
    LET bad == FirstRejected(TokCols, NumColumns)
    IN /\ TokCols[1] = Placeholder => ~fn_output.val.ok
       /\ fn_output.val.ok <=> bad = 0
       /\ bad # 0 => fn_output.val = ColumnResult(bad, TokCols[bad])
       /\ fn_output.val.ok =>
            /\ FieldOf(fn_output.val.val, 1) = parse_id(TokCols[1]).val
            /\ FieldOf(fn_output.val.val, 2) = TokCols[2]
            /\ \A i \in OptionalColumns :
                 IF TokCols[i] = Placeholder
                 THEN FieldOf(fn_output.val.val, i) = None
                 ELSE FieldOf(fn_output.val.val, i)
                        = Some(ColumnResult(i, TokCols[i]).val)

\* Witness for C9: a ten-column line whose form and lemma are both "_" and whose
\* upos and deps are parsed gave a token with the form "_" and no lemma.
C9_Witness ==
  /\ TokDone
  /\ Len(TokCols) = NumColumns
  /\ TokCols[2] = Placeholder /\ TokCols[3] = Placeholder
  /\ TokCols[4] = <<"X">> /\ TokCols[9] = <<"0", ":", "r">>
  /\ fn_output.val.ok
  /\ fn_output.val.val.form = Placeholder
  /\ fn_output.val.val.lemma = None
  /\ fn_output.val.val.upos = Some(<<"X">>)

(***************************************************************************)
(* Claims about the FEATS parser (checked under SpecKv).                   *)
(***************************************************************************)
KvDone == fn_name = "parse_key_value_pairs" /\ fn_output.done

\* The '|'-separated parts of the input field.
KvInputParts == Split(fn_input, "|")

\* The text of a part before and after its first '='.
KeyOf(part) == SubSeq(part, 1, FirstIndex(part, "=") - 1)

ValueOf(part) == SubSeq(part, FirstIndex(part, "=") + 1, Len(part))

\* The orders of the elements of a finite set.
OrdersOf(S) ==
  {f \in [1..Cardinality(S) -> S] :
     \A i \in 1..Cardinality(S), j \in 1..Cardinality(S) : f[i] = f[j] => i = j}

\* A map written as key=value parts joined by '|', in the given order of keys.
Serialize(m, order) ==
  Join([i \in 1..Len(order) |-> order[i] \o <<"=">> \o m[order[i]]], "|")

\* C10: the field is split on '|' and each part on its first '='; a part with
\* no '=' fails the whole field with the key/value failure; otherwise the
\* result maps each key to the value of its last occurrence, so parts with
\* distinct keys may come in any order and a map read back from any
\* serialization of it is the same map.
C10_FeaturesMap ==
  KvDone =>
    LET parts == KvInputParts
        n == Len(parts)
    IN IF \E i \in 1..n : ~Contains(parts[i], "=")
       THEN fn_output.val = Err(KeyValueParseError)
       ELSE /\ fn_output.val.ok
            /\ DOMAIN fn_output.val.val = {KeyOf(parts[i]) : i \in 1..n}
            /\ \A i \in 1..n :
                 (\A j \in (i + 1)..n : KeyOf(parts[j]) # KeyOf(parts[i]))
                   => fn_output.val.val[KeyOf(parts[i])] = ValueOf(parts[i])
            /\ (\A i \in 1..n, j \in 1..n : KeyOf(parts[i]) = KeyOf(parts[j]) => i = j)
                 => \A o \in OrdersOf(1..n) :
                      parse_key_value_pairs(Join([i \in 1..n |-> parts[o[i]]], "|"))
                        = fn_output.val
            /\ \A o \in OrdersOf(DOMAIN fn_output.val.val) :
                 parse_key_value_pairs(Serialize(fn_output.val.val, o)) = fn_output.val

\* Witness for C10: a field of three parts, two of them with the key "a", was
\* parsed to a map of two keys holding the later value of "a".
C10_Witness ==
  /\ KvDone
  /\ Len(KvInputParts) = 3
  /\ fn_output.val.ok
  /\ Cardinality(DOMAIN fn_output.val.val) = 2
  /\ KvInputParts[1] = <<"a", "=", "1">>
  /\ KvInputParts[3] = <<"a", "=", "2">>
  /\ fn_output.val.val[<<"a">>] = <<"2">>

====
